---- MODULE Spec2Model ----
(***************************************************************************)
(* Model of the MRTODP Orchestrator (backend/cpp/task_manager/             *)
(* orchestrator.cpp): delegateTask, queryAIEngine, the capability fallback *)
(* selectRobotByCapability, the SQLite task ledger (storeTask,             *)
(* getTaskStatus) and the publish on /mrtodp/tasks.                        *)
(*                                                                         *)
(* Several worker threads call delegateTask on one Orchestrator object.    *)
(* Each step of a call that touches shared state (the ZeroMQ REQ socket,   *)
(* the capability map, the database, the ROS publisher) is one action.     *)
(*                                                                         *)
(* The RobotInterface process (backend/cpp/robot_interface/interface.cpp)  *)
(* is modelled beside it: the constructor's driver load loop, taskCallback *)
(* and sendToRobot, the calls into driver libraries and the publish on     *)
(* /mrtodp/responses.  SpecExecute runs it alone over every configuration, *)
(* SpecDispatch runs it on the messages the Orchestrator publishes.        *)
(*                                                                         *)
(* SpecShared adds the outcomes of two threads using the unlocked socket   *)
(* at once, FairSpec schedules the worker threads.  SpecBackend runs       *)
(* process_robot_command of backend/c/drivers/driver.c, SpecTest the mock  *)
(* Orchestrator of tests/cpp/test_orchestrator.cpp.                        *)
(***************************************************************************)
EXTENDS Integers, Sequences, FiniteSets, TLC

\* ---------------------------------------------------------------- bounds
NumThreads == 2      \* worker threads calling delegateTask concurrently
MaxCalls == 2        \* delegateTask calls started in one run
MaxPrior == 1        \* rows already in mrtodp_tasks.db when the process starts
MaxStrength == 2     \* strengths 0..MaxStrength in the tables of SpecBest
MaxExec == 2         \* messages handed to taskCallback in SpecExecute

Threads == 1..NumThreads

\* ------------------------------------------------------------- constants
\* Threshold of the two hardcoded capability checks of delegateTask.
MinStrength == 50

\* Robot ids in the key order of std::map<std::string, ...> (byte-wise
\* lexicographic): "Ford" < "Ghost" < "Scion".  "Ghost" is an id the AI
\* engine may answer with that is not a key of robot_capabilities_.
RobotIds == <<"Ford", "Ghost", "Scion">>

\* The member initializer of robot_capabilities_.
InitialCapabilities ==
    [r \in {"Ford", "Scion"} |->
        IF r = "Ford" THEN ("heavy_lifting" :> 90) @@ ("navigation" :> 70)
                      ELSE ("delicate_task" :> 85) @@ ("navigation" :> 80)]

\* Task types a caller passes to delegateTask.
TaskTypes == {"", "heavy_lifting", "delicate_task", "navigation", "unknown_capability"}

\* robot_id strings a well-formed AI engine reply may carry.
AdvisoryReplies == {"Ford", "Scion", "Ghost"}

\* Exceptions delegateTask throws, by the text the code gives them.
ValidationError == "Task type cannot be empty"
NoCapableRobot == "AI engine query failed: No robot found with capability"
UnknownRobot == "Robot not found"
InsufficientCapability == "Robot lacks sufficient capability"
PersistenceError == "Failed to store task"

\* The exception of selectRobotByCapability.
NoRobotFound == "No robot found with capability"

\* delegateTask is declared void: the values handed back to the caller are none.
Void == <<>>

VARIABLES
    robot_capabilities_,  \* robot_id -> (capability -> strength)
    ledger,               \* rows of table tasks, in insertion order
    issued,               \* history: id -> task_type and robot of the call that stored it
    zmq_state,            \* REQ socket state machine: "ready" or "awaiting"
    zmq_connected,        \* the constructor connected the socket and set rcvtimeo
    tasks_topic,          \* messages published on /mrtodp/tasks
    calls,                \* delegateTask calls started so far
    pc,                   \* per thread: position inside delegateTask
    task_type,            \* per thread: argument of the running call
    robot_id,             \* per thread: local robot_id
    via,                  \* per thread: "advisory" or "fallback" produced robot_id
    row,                  \* per thread: rowid SQLite gave to this call's INSERT
    pub,                  \* per thread: what became of the publish
    result,               \* per thread: "ok" or the exception thrown
    returned,             \* per thread: the values delegateTask handed back to the caller
    status_query,         \* what getTaskStatus returned, when it was the last operation
    best_query,           \* last selectRobotByCapability call made on its own
    driver_files,         \* robot_id -> what lies at the robot's driver path
    driver_handles_,      \* robot_id -> handle of the library dlopen loaded
    robot_language_map_,  \* robot_id -> language
    load_pos,             \* RobotInterface constructor: next entry of the load loop
    delivered,            \* messages handed to taskCallback so far
    driver_calls,         \* calls made through a driver function pointer
    responses_topic,      \* messages published on /mrtodp/responses
    dispatch,             \* how the last taskCallback ended
    backend_call,         \* driver.c: the last process_robot_command call
    test_call             \* test_orchestrator.cpp: the last call on its Orchestrator

vars == <<robot_capabilities_, ledger, issued, zmq_state, zmq_connected,
          tasks_topic, calls,
          pc, task_type, robot_id, via, row, pub, result, returned,
          status_query, best_query,
          driver_files, driver_handles_, robot_language_map_, load_pos,
          delivered, driver_calls, responses_topic, dispatch,
          backend_call, test_call>>

thread_vars == <<pc, task_type, robot_id, via, row, pub, result, returned>>

\* The programs that run on their own: driver.c and the test suite.
standalone_vars == <<backend_call, test_call>>

\* The state of the RobotInterface process.
dispatch_vars == <<driver_files, driver_handles_, robot_language_map_, load_pos,
                   delivered, driver_calls, responses_topic, dispatch>>

\* ------------------------------------------------- selectRobotByCapability
\* The loop over robot_capabilities_ in key order; "" is best_robot.empty().
\* Bug variant: ">=" in place of ">", so that a later robot wins a tie.
RECURSIVE SelectLoop_TieToLast(_, _, _, _, _)
SelectLoop_TieToLast(caps, tt, i, best_robot, best_score) ==
    IF i > Len(RobotIds) THEN best_robot
    ELSE LET r == RobotIds[i] IN
         IF /\ r \in DOMAIN caps
            /\ tt \in DOMAIN caps[r]
            /\ caps[r][tt] >= best_score
            /\ caps[r][tt] > 0
         THEN SelectLoop_TieToLast(caps, tt, i + 1, r, caps[r][tt])
         ELSE SelectLoop_TieToLast(caps, tt, i + 1, best_robot, best_score)

RECURSIVE SelectLoop(_, _, _, _, _)
SelectLoop(caps, tt, i, best_robot, best_score) ==
    IF i > Len(RobotIds) THEN best_robot
    ELSE LET r == RobotIds[i] IN
         IF /\ r \in DOMAIN caps
            /\ tt \in DOMAIN caps[r]
            /\ caps[r][tt] > best_score
         THEN SelectLoop(caps, tt, i + 1, r, caps[r][tt])
         ELSE SelectLoop(caps, tt, i + 1, best_robot, best_score)

selectRobotByCapability(caps, tt) == SelectLoop(caps, tt, 1, "", 0)

\* robot_capabilities_[r][c]: std::map::operator[] inserts what is absent,
\* an empty map for the robot and a 0 for the capability.
TouchCapability(caps, r, c) ==
    IF r \notin DOMAIN caps THEN caps @@ (r :> (c :> 0))
    ELSE IF c \in DOMAIN caps[r] THEN caps
    ELSE [caps EXCEPT ![r] = caps[r] @@ (c :> 0)]

\* ------------------------------------------------------------------ ledger
\* INTEGER PRIMARY KEY AUTOINCREMENT: one more than the largest id ever used
\* (rows are never deleted).
\* Bug variant: the largest id is handed out again.
NextId_Reuse(l) == IF Len(l) = 0 THEN 1 ELSE l[Len(l)].id

NextId(l) == IF Len(l) = 0 THEN 1 ELSE l[Len(l)].id + 1

\* Rows left by earlier runs of the process (the example main() stores
\* a heavy_lifting task): the database file outlives the process.
PriorLedger(n) ==
    [i \in 1..n |-> [id |-> i, task_type |-> "heavy_lifting",
                     robot_id |-> "Ford", status |-> "assigned"]]

Idle == [t \in Threads |-> "idle"]

\* selectRobotByCapability has not been called on its own.
NoBest == [capability |-> "", robot |-> "", error |-> "none"]

\* No getTaskStatus result is pending with a caller.
NoQuery == [task_id |-> 0, rows |-> <<>>, error |-> "none"]

\* robot_driver_map_ of initRobotMappings, in the key order the constructor
\* of RobotInterface walks it.
robot_driver_map_ ==
    <<[robot_id |-> "Ford", driver_path |-> "backend/c/drivers/ford_driver.so"],
      [robot_id |-> "Scion", driver_path |-> "backend/assembly/drivers/scion_driver.so"]>>

\* The robots that have a driver configured.
ConfiguredRobots == {robot_driver_map_[i].robot_id : i \in 1..Len(robot_driver_map_)}

\* taskCallback has not run.
NoResponse == [status |-> "", message |-> <<>>]

NoDispatch ==
    [robot_id |-> "", task_type |-> "", error |-> "none", detail |-> "",
     command |-> "", invoked |-> FALSE, response |-> NoResponse,
     published |-> FALSE]

\* No RobotInterface process has been started.
NoRobotInterface ==
    /\ driver_files = [r \in ConfiguredRobots |-> "missing"]
    /\ driver_handles_ = <<>>
    /\ robot_language_map_ = <<>>
    /\ load_pos = 0
    /\ delivered = 0
    /\ driver_calls = <<>>
    /\ responses_topic = <<>>
    /\ dispatch = NoDispatch

\* process_robot_command has not been called.
NoBackendCall ==
    [input |-> <<>>, ret |-> 0, output |-> NoResponse, posted |-> <<>>]

\* Nothing has been called on the Orchestrator of the test suite.
NoTestCall ==
    [function |-> "", task |-> [id |-> "", command |-> "", robotId |-> ""],
     command |-> "", robotId_in |-> "", robotId |-> "",
     returned |-> FALSE, thrown |-> "none", detail |-> ""]

\* Neither driver.c nor the test suite has run.
NoStandalone ==
    /\ backend_call = NoBackendCall
    /\ test_call = NoTestCall

\* The Orchestrator after construction, but for the capability table and the
\* database.  The constructor calls connect and then sets rcvtimeo inside one
\* try block whose catch only warns: either both took effect, or connect
\* threw and the socket has no endpoint and no receive timeout.
OrchestratorRest ==
    /\ zmq_state = "ready"
    /\ zmq_connected \in BOOLEAN
    /\ tasks_topic = <<>>
    /\ calls = 0
    /\ pc = Idle
    /\ task_type = [t \in Threads |-> ""]
    /\ robot_id = [t \in Threads |-> ""]
    /\ via = [t \in Threads |-> "none"]
    /\ row = [t \in Threads |-> 0]
    /\ pub = [t \in Threads |-> "none"]
    /\ result = [t \in Threads |-> "none"]
    /\ returned = [t \in Threads |-> <<>>]
    /\ status_query = NoQuery
    /\ best_query = NoBest

\* Everything but the capability table and the database, after construction,
\* with no RobotInterface running.
InitRest ==
    /\ OrchestratorRest
    /\ NoRobotInterface
    /\ NoStandalone

Init ==
    /\ robot_capabilities_ = InitialCapabilities
    /\ \E n \in 0..MaxPrior :
          /\ ledger = PriorLedger(n)
          /\ issued = [i \in 1..n |-> [task_type |-> "heavy_lifting", robot_id |-> "Ford"]]
    /\ InitRest

\* ------------------------------------------------------------ delegateTask
\* delegateTask returns or throws: its locals go out of scope, the caller
\* holds the outcome and whatever the function returned.
Finish(t, outcome) ==
    /\ pc' = [pc EXCEPT ![t] = "done"]
    /\ result' = [result EXCEPT ![t] = outcome]
    /\ returned' = [returned EXCEPT ![t] = Void]
    /\ task_type' = [task_type EXCEPT ![t] = ""]
    /\ robot_id' = [robot_id EXCEPT ![t] = ""]
    /\ via' = [via EXCEPT ![t] = "none"]
    /\ row' = [row EXCEPT ![t] = 0]

\* Bug variant: the catch block gives up instead of falling back.
Fallback_GiveUp(t) == Finish(t, NoCapableRobot)

\* Bug variant: no best_robot.empty() check, the empty id goes on to be verified.
Fallback_NoEmptyCheck(t) ==
    /\ robot_id' = [robot_id EXCEPT ![t] =
                        selectRobotByCapability(robot_capabilities_, task_type[t])]
    /\ via' = [via EXCEPT ![t] = "fallback"]
    /\ pc' = [pc EXCEPT ![t] = "verify"]
    /\ UNCHANGED <<task_type, row, result, returned>>

\* The catch block of queryAIEngine: selectRobotByCapability, whose own
\* exception leaves queryAIEngine and is rethrown by delegateTask.
Fallback(t) ==
    LET best == selectRobotByCapability(robot_capabilities_, task_type[t]) IN
    IF best = ""
    THEN Finish(t, NoCapableRobot)
    ELSE /\ robot_id' = [robot_id EXCEPT ![t] = best]
         /\ via' = [via EXCEPT ![t] = "fallback"]
         /\ pc' = [pc EXCEPT ![t] = "verify"]
         /\ UNCHANGED <<task_type, row, result, returned>>

\* Bug variant: the validation is missing.
EmptyTaskType_NoCheck(tt) == FALSE

\* The validation at the head of delegateTask.
EmptyTaskType(tt) == tt = ""

\* Entry of delegateTask(tt) on a thread that is not inside a call.  The
\* empty task type throws invalid_argument before anything else is touched.
DelegateCall(t, tt) ==
    /\ pc[t] \in {"idle", "done"}
    /\ calls < MaxCalls
    /\ calls' = calls + 1
    /\ pub' = [pub EXCEPT ![t] = "none"]
    /\ IF EmptyTaskType(tt)
       THEN Finish(t, ValidationError)
       ELSE /\ pc' = [pc EXCEPT ![t] = "send"]
            /\ task_type' = [task_type EXCEPT ![t] = tt]
            /\ result' = [result EXCEPT ![t] = "none"]
            /\ returned' = [returned EXCEPT ![t] = <<>>]
            /\ UNCHANGED <<robot_id, via, row>>
    /\ status_query' = NoQuery
    /\ UNCHANGED <<robot_capabilities_, ledger, issued, zmq_state, tasks_topic,
                   best_query, dispatch_vars, standalone_vars, zmq_connected>>

\* zmq_socket_.send: a REQ socket that still awaits a reply refuses the send
\* (zmq::error_t, EFSM), which the catch block turns into the fallback.  A
\* REQ socket without an endpoint blocks in send (no send timeout is set).
QuerySend(t) ==
    /\ pc[t] = "send"
    /\ IF zmq_state = "ready"
       THEN /\ zmq_connected
            /\ zmq_state' = "awaiting"
            /\ pc' = [pc EXCEPT ![t] = "recv"]
            /\ UNCHANGED <<task_type, robot_id, via, row, result, returned>>
       ELSE /\ Fallback(t)
            /\ UNCHANGED zmq_state
    /\ status_query' = NoQuery
    /\ UNCHANGED <<robot_capabilities_, ledger, issued, tasks_topic, calls,
                   pub, best_query, dispatch_vars, standalone_vars, zmq_connected>>

\* zmq_socket_.recv delivers a reply whose robot_id is a string.
QueryRecvReply(t, r) ==
    /\ pc[t] = "recv"
    /\ zmq_state' = "ready"
    /\ robot_id' = [robot_id EXCEPT ![t] = r]
    /\ via' = [via EXCEPT ![t] = "advisory"]
    /\ pc' = [pc EXCEPT ![t] = "verify"]
    /\ status_query' = NoQuery
    /\ UNCHANGED <<robot_capabilities_, ledger, issued, tasks_topic, calls,
                   task_type, row, pub, result, returned, best_query, dispatch_vars, standalone_vars, zmq_connected>>

\* The reply does not parse, or has no string robot_id: exception, fallback.
QueryRecvInvalid(t) ==
    /\ pc[t] = "recv"
    /\ zmq_state' = "ready"
    /\ Fallback(t)
    /\ status_query' = NoQuery
    /\ UNCHANGED <<robot_capabilities_, ledger, issued, tasks_topic, calls,
                   pub, best_query, dispatch_vars, standalone_vars, zmq_connected>>

\* rcvtimeo (2000 ms) expires: recv returns no value, exception, fallback.
\* The socket keeps waiting for the reply it never read.
QueryRecvTimeout(t) ==
    /\ pc[t] = "recv"
    /\ Fallback(t)
    /\ status_query' = NoQuery
    /\ UNCHANGED <<zmq_state, robot_capabilities_, ledger, issued, tasks_topic, calls,
                   pub, best_query, dispatch_vars, standalone_vars, zmq_connected>>

\* The capabilities with a hardcoded minimum-strength check.
CheckedCapabilities == {"heavy_lifting", "delicate_task"}

\* Bug variant: find() in place of operator[], an absent capability passes.
LacksCapability_FindOnly(caps, r, tt) ==
    /\ tt \in CheckedCapabilities
    /\ tt \in DOMAIN caps[r]
    /\ caps[r][tt] < MinStrength

\* The hardcoded checks: the strength of robot r, known to the table, read
\* through operator[], is below the minimum.
LacksCapability(caps, r, tt) ==
    /\ tt \in CheckedCapabilities
    /\ TouchCapability(caps, r, tt)[r][tt] < MinStrength

\* Bug variant: the find() is missing.
KnownRobot_NoCheck(caps, r) == TRUE

\* The find() that guards the checks.
KnownRobot(caps, r) == r \in DOMAIN caps

\* "Verify robot exists and has capability".
Verify(t) ==
    /\ pc[t] = "verify"
    /\ IF ~KnownRobot(robot_capabilities_, robot_id[t])
       THEN /\ Finish(t, UnknownRobot)
            /\ UNCHANGED robot_capabilities_
       ELSE /\ robot_capabilities_' =
                  IF task_type[t] \in CheckedCapabilities
                  THEN TouchCapability(robot_capabilities_, robot_id[t], task_type[t])
                  ELSE robot_capabilities_
            /\ IF LacksCapability(robot_capabilities_, robot_id[t], task_type[t])
               THEN Finish(t, InsufficientCapability)
               ELSE /\ pc' = [pc EXCEPT ![t] = "store"]
                    /\ UNCHANGED <<task_type, robot_id, via, row, result, returned>>
    /\ status_query' = NoQuery
    /\ UNCHANGED <<ledger, issued, zmq_state, tasks_topic, calls,
                   pub, best_query, dispatch_vars, standalone_vars, zmq_connected>>

\* Bug variant: the INSERT writes a status outside the four of a record.
NewRow_Pending(l, tt, r, status) ==
    [id |-> NextId(l), task_type |-> tt, robot_id |-> r, status |-> "pending"]

\* Bug variant: the first two sqlite3_bind_text indexes are swapped.
NewRow_Swapped(l, tt, r, status) ==
    [id |-> NextId(l), task_type |-> r, robot_id |-> tt, status |-> status]

\* The row storeTask inserts.
NewRow(l, tt, r, status) ==
    [id |-> NextId(l), task_type |-> tt, robot_id |-> r, status |-> status]

\* storeTask under db_mutex_: prepare, bind, step succeed.
StoreTask(t) ==
    /\ pc[t] = "store"
    /\ LET rec == NewRow(ledger, task_type[t], robot_id[t], "assigned") IN
          /\ ledger' = Append(ledger, rec)
          /\ issued' = issued @@ (rec.id :> [task_type |-> task_type[t],
                                              robot_id |-> robot_id[t]])
          /\ row' = [row EXCEPT ![t] = rec.id]
    /\ pc' = [pc EXCEPT ![t] = "publish"]
    /\ status_query' = NoQuery
    /\ UNCHANGED <<robot_capabilities_, zmq_state, tasks_topic, calls,
                   task_type, robot_id, via, pub, result, returned,
                   best_query, dispatch_vars, standalone_vars, zmq_connected>>

\* Bug variant: the failed insert is swallowed and the call goes on to publish.
StoreTaskFails_PublishAnyway(t) ==
    /\ pc[t] = "store"
    /\ pc' = [pc EXCEPT ![t] = "publish"]
    /\ status_query' = NoQuery
    /\ UNCHANGED <<robot_capabilities_, ledger, issued, zmq_state, tasks_topic, calls,
                   task_type, robot_id, via, row, pub, result, returned, best_query, dispatch_vars, standalone_vars, zmq_connected>>

\* sqlite3_prepare_v2 or sqlite3_step fails: "Failed to store task".
StoreTaskFails(t) ==
    /\ pc[t] = "store"
    /\ Finish(t, PersistenceError)
    /\ status_query' = NoQuery
    /\ UNCHANGED <<robot_capabilities_, ledger, issued, zmq_state, tasks_topic, calls,
                   pub, best_query, dispatch_vars, standalone_vars, zmq_connected>>

\* The message delegateTask builds for /mrtodp/tasks.
TaskMessage(r, tt) == [robot_id |-> r, task_type |-> tt]

\* task_publisher_.publish: the message enters the topic; delegateTask returns.
Publish(t) ==
    /\ pc[t] = "publish"
    /\ tasks_topic' = Append(tasks_topic, TaskMessage(robot_id[t], task_type[t]))
    /\ pub' = [pub EXCEPT ![t] = "sent"]
    /\ Finish(t, "ok")
    /\ status_query' = NoQuery
    /\ UNCHANGED <<robot_capabilities_, ledger, issued, zmq_state, calls,
                   best_query, dispatch_vars, standalone_vars, zmq_connected>>

\* Bug variant: a dropped publish deletes the row the call stored.
PublishLost_Rollback(t) ==
    /\ pc[t] = "publish"
    /\ ledger' = SelectSeq(ledger, LAMBDA rec : rec.id # row[t])
    /\ pub' = [pub EXCEPT ![t] = "lost"]
    /\ Finish(t, "ok")
    /\ status_query' = NoQuery
    /\ UNCHANGED <<robot_capabilities_, issued, zmq_state, tasks_topic, calls,
                   best_query, dispatch_vars, standalone_vars, zmq_connected>>

\* task_publisher_.publish with no subscriber connected or a full queue:
\* the message is dropped and publish still returns normally.
PublishLost(t) ==
    /\ pc[t] = "publish"
    /\ pub' = [pub EXCEPT ![t] = "lost"]
    /\ Finish(t, "ok")
    /\ status_query' = NoQuery
    /\ UNCHANGED <<robot_capabilities_, ledger, issued, zmq_state, tasks_topic, calls,
                   best_query, dispatch_vars, standalone_vars, zmq_connected>>

\* ----------------------------------------------------------- getTaskStatus
\* SELECT ... WHERE id = ?: the matching rows as string maps.
RECURSIVE SelectRows(_, _, _)
SelectRows(l, task_id, i) ==
    IF i > Len(l) THEN <<>>
    ELSE IF l[i].id = task_id
         THEN <<[id |-> ToString(l[i].id), task_type |-> l[i].task_type,
                 robot_id |-> l[i].robot_id, status |-> l[i].status]>>
              \o SelectRows(l, task_id, i + 1)
         ELSE SelectRows(l, task_id, i + 1)

NotFound == "Task ID not found"

\* Ids a caller may ask for: every id the run can issue, and some it cannot.
QueryIds == 0..(MaxPrior + MaxCalls + 1)

\* getTaskStatus(task_id): the whole query runs under db_mutex_; an empty
\* result throws "Task ID ... not found".
getTaskStatus(task_id) ==
    /\ LET found == SelectRows(ledger, task_id, 1) IN
          status_query' = [task_id |-> task_id, rows |-> found,
                           error |-> IF found = <<>> THEN NotFound ELSE "none"]
    /\ UNCHANGED <<robot_capabilities_, ledger, issued, zmq_state, tasks_topic, calls,
                   thread_vars, best_query, dispatch_vars, standalone_vars, zmq_connected>>

Next ==
    \/ \E t \in Threads, tt \in TaskTypes : DelegateCall(t, tt)
    \/ \E t \in Threads : QuerySend(t)
    \/ \E t \in Threads, r \in AdvisoryReplies : QueryRecvReply(t, r)
    \/ \E t \in Threads : QueryRecvInvalid(t)
    \/ \E t \in Threads : QueryRecvTimeout(t)
    \/ \E t \in Threads : Verify(t)
    \/ \E t \in Threads : StoreTask(t)
    \/ \E t \in Threads : StoreTaskFails(t)
    \/ \E t \in Threads : Publish(t)
    \/ \E t \in Threads : PublishLost(t)

Spec == Init /\ [][Next]_vars

\* One worker delegating, as the example main() does, with getTaskStatus
\* called at any moment.
Caller == CHOOSE t \in Threads : \A u \in Threads : t <= u

NextStatus ==
    \/ \E tt \in TaskTypes : DelegateCall(Caller, tt)
    \/ QuerySend(Caller)
    \/ \E r \in AdvisoryReplies : QueryRecvReply(Caller, r)
    \/ QueryRecvInvalid(Caller)
    \/ QueryRecvTimeout(Caller)
    \/ Verify(Caller)
    \/ StoreTask(Caller)
    \/ StoreTaskFails(Caller)
    \/ Publish(Caller)
    \/ PublishLost(Caller)
    \/ \E id \in QueryIds : getTaskStatus(id)

SpecStatus == Init /\ [][NextStatus]_vars

\* ---------------------------------- selectRobotByCapability over any table
\* Capabilities and strengths of the tables selectRobotByCapability is tried on.
TableCapabilities == {"heavy_lifting", "navigation"}

Strengths == 0..MaxStrength

\* The capability maps a robot may have: each capability absent or scored.
CapabilityMaps ==
    UNION {[cs -> Strengths] : cs \in SUBSET TableCapabilities}

\* The tables: any set of robots, each with any capability map.
Tables ==
    UNION {[rs -> CapabilityMaps] : rs \in SUBSET {RobotIds[i] : i \in 1..Len(RobotIds)}}

InitBest ==
    /\ robot_capabilities_ \in Tables
    /\ ledger = <<>>
    /\ issued = <<>>
    /\ InitRest

\* A call of selectRobotByCapability(capability) against the table.
BestRobotFor(capability) ==
    /\ LET best == selectRobotByCapability(robot_capabilities_, capability) IN
          best_query' = [capability |-> capability, robot |-> best,
                         error |-> IF best = "" THEN NoRobotFound ELSE "none"]
    /\ UNCHANGED <<robot_capabilities_, ledger, issued, zmq_state, tasks_topic, calls,
                   thread_vars, status_query, dispatch_vars, standalone_vars, zmq_connected>>

NextBest == \E c \in TableCapabilities \cup {"unknown_capability"} : BestRobotFor(c)

SpecBest == InitBest /\ [][NextBest]_vars

\* ------------------------------------------- the socket shared by workers
\* zmq_socket_.send by thread t while another thread is blocked in recv on
\* the same socket.  A zmq socket is not thread-safe and queryAIEngine takes
\* no lock, so the two calls race: the send is refused as in QuerySend, or,
\* here, it goes through and a second request is on the session.
QuerySendRacing(t) ==
    /\ pc[t] = "send"
    /\ zmq_state = "awaiting"
    /\ \E u \in Threads \ {t} : pc[u] = "recv"
    /\ pc' = [pc EXCEPT ![t] = "recv"]
    /\ status_query' = NoQuery
    /\ UNCHANGED <<robot_capabilities_, ledger, issued, zmq_state, tasks_topic, calls,
                   task_type, robot_id, via, row, pub, result, returned,
                   best_query, dispatch_vars, standalone_vars, zmq_connected>>

NextShared ==
    \/ Next
    \/ \E t \in Threads : QuerySendRacing(t)

\* The workers of Spec, with every outcome of their unsynchronised use of
\* the socket.
SpecShared == Init /\ [][NextShared]_vars

\* A step of the delegateTask call thread t is in.
ThreadStep(t) ==
    \/ QuerySend(t)
    \/ \E r \in AdvisoryReplies : QueryRecvReply(t, r)
    \/ QueryRecvInvalid(t)
    \/ QueryRecvTimeout(t)
    \/ Verify(t)
    \/ StoreTask(t)
    \/ StoreTaskFails(t)
    \/ Publish(t)
    \/ PublishLost(t)

\* The worker threads, scheduled: a thread inside delegateTask takes its next
\* step whenever that step can be taken.  A blocked send or recv is a step
\* that cannot be taken.
FairSpec == Spec /\ \A t \in Threads : WF_vars(ThreadStep(t))

\* ============================================================ RobotInterface
\* robot_language_map_ of initRobotMappings.
InitialLanguages == ("Ford" :> "KRL") @@ ("Scion" :> "RAPID")

\* The languages sendToRobot translates to.
Languages == {"KRL", "RAPID", "KAREL", "VAL3"}

\* The languages a configuration may name; LUA stands for any other string.
ConfigurableLanguages == Languages \cup {"LUA"}

\* What may lie at a driver path: nothing, a file dlopen refuses, the library
\* built from driver.c, a library that exports execute_task.
DriverFiles == {"missing", "unloadable", "driver.c", "execute_task.so"}

\* std::filesystem::exists holds and dlopen returns a handle.
Loadable(file) == file \in {"driver.c", "execute_task.so"}

\* The functions dlsym finds in a loaded library.  driver.c defines
\* process_robot_command and main; its other functions are static.
Exports(file) ==
    IF file = "driver.c" THEN {"process_robot_command", "main"}
    ELSE {"execute_task"}

\* Bug variant: an exception of one robot's load leaves the loop.
AfterLoadFailure_Abort(pos) == Len(robot_driver_map_) + 1

\* The catch inside the loop: the failure is logged, the loop goes on.
AfterLoadFailure(pos) == pos + 1

\* One iteration of the constructor's load loop.
LoadDriver ==
    /\ load_pos \in 1..Len(robot_driver_map_)
    /\ LET r == robot_driver_map_[load_pos].robot_id IN
          IF Loadable(driver_files[r])
          THEN /\ driver_handles_' = driver_handles_ @@ (r :> driver_files[r])
               /\ load_pos' = load_pos + 1
          ELSE /\ driver_handles_' = driver_handles_
               /\ load_pos' = AfterLoadFailure(load_pos)
    /\ status_query' = NoQuery
    /\ UNCHANGED <<robot_capabilities_, ledger, issued, zmq_state, tasks_topic, calls,
                   thread_vars, best_query, driver_files, robot_language_map_,
                   delivered, driver_calls, responses_topic, dispatch,
                   standalone_vars, zmq_connected>>

\* The constructor has returned; main() is in ros::spin().
Started == load_pos > Len(robot_driver_map_)

isRobotAvailable(r) ==
    r \in DOMAIN driver_handles_ /\ r \in DOMAIN robot_language_map_

\* The exceptions of sendToRobot and taskCallback, by their message.
NoDriverLoaded == "No driver loaded for robot"
NoLanguageMapping == "No language mapping for robot"
UnsupportedLanguage == "Unsupported robot language"
FunctionNotFound == "Failed to load function"
DriverExecutionFailed == "Driver execution failed for robot"
InvalidTaskData == "Invalid task data: missing robot_id or task_type"
ParseError == "parse error"

\* The languages the if-chain of sendToRobot has a branch for.
SupportedLanguage(lang) == lang \in Languages

\* Bug variant: the RAPID branch builds a KRL command.
Command_AlwaysKRL(lang, task_data) ==
    IF lang \in {"KRL", "RAPID"} THEN "KRL_EXEC(" \o task_data \o ")"
    ELSE lang \o "_EXEC(" \o task_data \o ")"

\* "Translate task_data to robot-specific language".
Command(lang, task_data) ==
    IF lang = "KRL" THEN "KRL_EXEC(" \o task_data \o ")"
    ELSE IF lang = "RAPID" THEN "RAPID_EXEC(" \o task_data \o ")"
    ELSE lang \o "_EXEC(" \o task_data \o ")"

\* The call through the function pointer into a library that exports
\* execute_task: it returns 0 and writes a success response, or returns
\* non-zero and writes what went wrong.
execute_task(command, works) ==
    IF works
    THEN [result |-> 0,
          response |-> [status |-> "success", message |-> <<"executed", command>>]]
    ELSE [result |-> 1,
          response |-> [status |-> "error", message |-> <<"failed", command>>]]

\* sendToRobot left by an exception before the driver was called.
Thrown(error, detail, command) ==
    [error |-> error, detail |-> detail, command |-> command,
     invoked |-> FALSE, response |-> NoResponse, published |-> FALSE]

\* Bug variant: the result of the driver is not looked at.
DriverFailed_Ignored(rc) == FALSE

\* "if (result != 0)".
DriverFailed(rc) == rc # 0

\* Bug variant: a robot without a driver is served by some loaded driver.
FindDriver_AnyLoaded(handles, rid) ==
    IF rid \in DOMAIN handles THEN rid
    ELSE IF DOMAIN handles = {} THEN ""
    ELSE CHOOSE r \in DOMAIN handles : TRUE

\* driver_handles_.find(robot_id): the key of the entry found, "" for end().
FindDriver(handles, rid) == IF rid \in DOMAIN handles THEN rid ELSE ""

\* sendToRobot(rid, task_data) against the loaded handles: what it
\* throws or publishes.  works is the outcome of the driver, when called.
sendToRobot(rid, task_data, works) ==
    LET driver_it == FindDriver(driver_handles_, rid) IN
    IF driver_it = ""
    THEN Thrown(NoDriverLoaded, rid, "")
    ELSE IF rid \notin DOMAIN robot_language_map_
    THEN Thrown(NoLanguageMapping, rid, "")
    ELSE LET lang == robot_language_map_[rid] IN
         IF ~SupportedLanguage(lang)
         THEN Thrown(UnsupportedLanguage, lang, "")
         ELSE LET command == Command(lang, task_data) IN
              IF "execute_task" \notin Exports(driver_handles_[driver_it])
              THEN Thrown(FunctionNotFound, "execute_task", command)
              ELSE LET r == execute_task(command, works) IN
                   [error |-> IF DriverFailed(r.result)
                              THEN DriverExecutionFailed ELSE "none",
                    detail |-> rid,
                    command |-> command,
                    invoked |-> TRUE,
                    response |-> r.response,
                    published |-> ~DriverFailed(r.result)]

\* What taskCallback does with a message: the parse, the two contains()
\* checks, sendToRobot, and the catch that logs any exception.
Handle(msg, works) ==
    IF "syntax_error" \in DOMAIN msg
    THEN [robot_id |-> "", task_type |-> ""] @@ Thrown(ParseError, "", "")
    ELSE IF ~({"robot_id", "task_type"} \subseteq DOMAIN msg)
    THEN [robot_id |-> "", task_type |-> ""] @@ Thrown(InvalidTaskData, "", "")
    ELSE [robot_id |-> msg.robot_id, task_type |-> msg.task_type]
            @@ sendToRobot(msg.robot_id, msg.task_type, works)

\* Bug variant: a message whose handling failed is handled again.
Consumed_RetryOnError(out) == IF out.error = "none" THEN 1 ELSE 0

\* Messages taken off the subscriber queue by one callback.
Consumed(out) == 1

\* taskCallback(msg), called from ros::spin() once the constructor is done.
taskCallback(msg, works) ==
    /\ Started
    /\ LET out == Handle(msg, works) IN
          /\ dispatch' = out
          /\ driver_calls' =
                IF out.invoked
                THEN Append(driver_calls, [robot_id |-> out.robot_id,
                                           function |-> "execute_task",
                                           command |-> out.command])
                ELSE driver_calls
          /\ responses_topic' =
                IF out.published THEN Append(responses_topic, out.response)
                ELSE responses_topic
          /\ delivered' = delivered + Consumed(out)
    /\ status_query' = NoQuery
    /\ UNCHANGED <<robot_capabilities_, ledger, issued, zmq_state, tasks_topic, calls,
                   thread_vars, best_query, driver_files, driver_handles_,
                   robot_language_map_, load_pos, standalone_vars, zmq_connected>>

\* ------------------------------------- sendToRobot over any configuration
\* Messages any node may publish on /mrtodp/tasks.
TaskMessages ==
    {TaskMessage(r, tt) : r \in {"Ford", "Scion", "Ghost"},
                          tt \in {"heavy_lifting", "x"}}
    \cup {[robot_id |-> "Ford"], [syntax_error |-> "{"]}

\* After initRobotMappings and subscribe, with any files at the driver paths
\* and any languages configured for the robots.
InitExecute ==
    /\ robot_capabilities_ = InitialCapabilities
    /\ ledger = <<>>
    /\ issued = <<>>
    /\ OrchestratorRest
    /\ NoStandalone
    /\ driver_files \in [ConfiguredRobots -> DriverFiles]
    /\ robot_language_map_ \in [ConfiguredRobots -> ConfigurableLanguages]
    /\ driver_handles_ = <<>>
    /\ load_pos = 1
    /\ delivered = 0
    /\ driver_calls = <<>>
    /\ responses_topic = <<>>
    /\ dispatch = NoDispatch

\* A message arrives on /mrtodp/tasks.
TaskArrives(msg, works) ==
    /\ delivered < MaxExec
    /\ taskCallback(msg, works)

NextExecute ==
    \/ LoadDriver
    \/ \E msg \in TaskMessages, works \in BOOLEAN : TaskArrives(msg, works)

SpecExecute == InitExecute /\ [][NextExecute]_vars

\* ------------------------------- Orchestrator and RobotInterface together
\* The libraries of the two driver paths: ford_driver.so of backend/c/drivers
\* is built from driver.c, scion_driver.so of backend/assembly/drivers
\* exports the function sendToRobot asks for.
InstalledDrivers == ("Ford" :> "driver.c") @@ ("Scion" :> "execute_task.so")

\* Both processes started: the Orchestrator as in Init, the RobotInterface
\* with the mappings of the code, its constructor done and main() in
\* ros::spin().
InitDispatch ==
    /\ robot_capabilities_ = InitialCapabilities
    /\ \E n \in 0..MaxPrior :
          /\ ledger = PriorLedger(n)
          /\ issued = [i \in 1..n |-> [task_type |-> "heavy_lifting", robot_id |-> "Ford"]]
    /\ OrchestratorRest
    /\ NoStandalone
    /\ driver_files = InstalledDrivers
    /\ robot_language_map_ = InitialLanguages
    /\ driver_handles_ = InstalledDrivers
    /\ load_pos = Len(robot_driver_map_) + 1
    /\ delivered = 0
    /\ driver_calls = <<>>
    /\ responses_topic = <<>>
    /\ dispatch = NoDispatch

\* The subscriber hands the oldest message of the topic to taskCallback.
Deliver(works) ==
    /\ delivered < Len(tasks_topic)
    /\ taskCallback(tasks_topic[delivered + 1], works)

NextDispatch ==
    \/ NextStatus
    \/ \E works \in BOOLEAN : Deliver(works)

SpecDispatch == InitDispatch /\ [][NextDispatch]_vars

\* A step of the delegateTask call the caller is in.
CallerStep ==
    \/ QuerySend(Caller)
    \/ \E r \in AdvisoryReplies : QueryRecvReply(Caller, r)
    \/ QueryRecvInvalid(Caller)
    \/ QueryRecvTimeout(Caller)
    \/ Verify(Caller)
    \/ StoreTask(Caller)
    \/ StoreTaskFails(Caller)
    \/ Publish(Caller)
    \/ PublishLost(Caller)

\* The same two processes, scheduled: a call of delegateTask runs on to its
\* end (recv has a timeout), ros::spin() hands every queued message to
\* taskCallback, and the caller keeps polling getTaskStatus for every id.
FairSpecDispatch ==
    /\ SpecDispatch
    /\ WF_vars(CallerStep)
    /\ WF_vars(\E works \in BOOLEAN : Deliver(works))
    /\ \A id \in QueryIds : WF_vars(getTaskStatus(id))

\* ================================================================ driver.c
\* validate_command: no field of the command is empty.
validate_command(cmd) ==
    /\ cmd.robot_id # ""
    /\ cmd.format # ""
    /\ cmd.command # ""

get_robot_type(format) ==
    IF format = "KRL" THEN "ROBOT_KRL"
    ELSE IF format = "RAPID" THEN "ROBOT_RAPID"
    ELSE IF format = "KAREL" THEN "ROBOT_KAREL"
    ELSE IF format = "VAL3" THEN "ROBOT_VAL3"
    ELSE "ROBOT_UNKNOWN"

\* The response one case of execute_on_robot writes with snprintf.
Executed(name, cmd) ==
    [ret |-> 1,
     response |-> [status |-> "success",
                   message |-> <<name, "executed for", cmd.robot_id, cmd.command>>]]

\* execute_on_robot: its return value and the response it fills in.
execute_on_robot(cmd) ==
    LET type == get_robot_type(cmd.format) IN
    IF type = "ROBOT_KRL" THEN Executed("KRL", cmd)
    ELSE IF type = "ROBOT_RAPID" THEN Executed("RAPID", cmd)
    ELSE IF type = "ROBOT_KAREL" THEN Executed("KAREL", cmd)
    ELSE IF type = "ROBOT_VAL3" THEN Executed("VAL3", cmd)
    ELSE [ret |-> 0,
          response |-> [status |-> "error",
                        message |-> <<"Unsupported format", cmd.format>>]]

\* send_response: what reaches ROBOT_INTERFACE_URL when curl_easy_perform
\* succeeds.
send_response(post_ok, response) == IF post_ok THEN <<response>> ELSE <<>>

\* A return of process_robot_command with an error written to output.
BackendError(text, posted) ==
    [ret |-> 0, output |-> [status |-> "error", message |-> text],
     posted |-> posted]

\* process_robot_command(json_input, output, output_size): the value it
\* returns, the response it writes to output and what it posts.  curl_ok is
\* the outcome of curl_easy_init, post_ok that of curl_easy_perform.
process_robot_command(json_input, curl_ok, post_ok) ==
    IF ~curl_ok
    THEN BackendError(<<"CURL initialization failed">>, <<>>)
    ELSE IF "syntax_error" \in DOMAIN json_input
    THEN BackendError(<<"Invalid JSON input">>,
             send_response(post_ok, [status |-> "error",
                                     message |-> <<"Invalid JSON input">>]))
    ELSE IF ~({"robotId", "format", "command"} \subseteq DOMAIN json_input)
    THEN BackendError(<<"Missing required fields">>,
             send_response(post_ok, [status |-> "error",
                                     message |-> <<"Missing required fields in JSON">>]))
    ELSE LET cmd == [robot_id |-> json_input.robotId,
                     format |-> json_input.format,
                     command |-> json_input.command] IN
         IF ~validate_command(cmd)
         THEN BackendError(<<"Invalid command data">>,
                  send_response(post_ok, [status |-> "error",
                                          message |-> <<"Invalid command data">>]))
         ELSE LET done == execute_on_robot(cmd) IN
              IF done.ret = 0
              THEN BackendError(done.response.message,
                       send_response(post_ok, done.response))
              ELSE IF ~post_ok
              THEN BackendError(<<"Failed to send response">>, <<>>)
              ELSE [ret |-> 1,
                    output |-> [status |-> "success",
                                message |-> done.response.message],
                    posted |-> <<done.response>>]

\* The requests process_robot_command is tried on: the three fields with
\* empty, supported and unsupported values, a request that lacks a field, and
\* text that is not JSON.
BackendInputs ==
    {[robotId |-> r, format |-> f, command |-> c] :
         r \in {"", "Ford", "KRL"},
         f \in {"", "KRL", "RAPID", "KAREL", "VAL3", "LUA", "krl"},
         c \in {"", "KRL_EXEC(x)"}}
    \cup {[robotId |-> "Ford", format |-> "KRL"], [syntax_error |-> "{"]}

\* A call of process_robot_command.
ProcessRobotCommand(json_input, curl_ok, post_ok) ==
    /\ backend_call' = [input |-> json_input]
                          @@ process_robot_command(json_input, curl_ok, post_ok)
    /\ UNCHANGED <<robot_capabilities_, ledger, issued, zmq_state, tasks_topic, calls,
                   thread_vars, status_query, best_query, dispatch_vars,
                   test_call, zmq_connected>>

InitBackend ==
    /\ robot_capabilities_ = InitialCapabilities
    /\ ledger = <<>>
    /\ issued = <<>>
    /\ InitRest

NextBackend ==
    \E json_input \in BackendInputs, curl_ok \in BOOLEAN, post_ok \in BOOLEAN :
        ProcessRobotCommand(json_input, curl_ok, post_ok)

SpecBackend == InitBackend /\ [][NextBackend]_vars

\* ==================================================== test_orchestrator.cpp
\* MockSQLiteDB::getRobotCapabilities: its return value and the vector it
\* leaves in capabilities, which the callers pass in empty.
Mock_getRobotCapabilities(robotId) ==
    IF robotId = "" THEN [ok |-> FALSE, capabilities |-> <<>>]
    ELSE IF robotId = "KUKA_1"
    THEN [ok |-> TRUE, capabilities |-> <<"weld_component", "inspect_part">>]
    ELSE IF robotId = "ABB_1"
    THEN [ok |-> TRUE, capabilities |-> <<"inspect_part">>]
    ELSE [ok |-> TRUE, capabilities |-> <<>>]

\* MockROSClient::executeTask.
Mock_executeTask(robotId, task) ==
    IF robotId = "" \/ task.id = "" THEN FALSE
    ELSE task.id # "INVALID_TASK"

\* MockSQLiteDB::storeTask.
Mock_storeTask(task) == task.id # "DB_FAIL"

\* std::find(capabilities.begin(), capabilities.end(), command) finds it.
Contains(capabilities, command) ==
    \E i \in 1..Len(capabilities) : capabilities[i] = command

\* A call of the test suite's Orchestrator that ends in a throw.
TestThrown(what, detail) == [returned |-> FALSE, thrown |-> what, detail |-> detail]

\* The test suite's Orchestrator::delegateTask(task).
Test_delegateTask(task) ==
    IF task.id = "" \/ task.command = ""
    THEN TestThrown("Invalid task: ID or command missing", "")
    ELSE LET got == Mock_getRobotCapabilities(task.robotId) IN
         IF ~got.ok
         THEN TestThrown("Failed to retrieve robot capabilities", "")
         ELSE IF ~Contains(got.capabilities, task.command)
         THEN TestThrown("Robot does not support command: ", task.command)
         ELSE IF ~Mock_executeTask(task.robotId, task)
         THEN TestThrown("Task execution failed", "")
         ELSE IF ~Mock_storeTask(task)
         THEN TestThrown("Failed to store task in database", "")
         ELSE [returned |-> TRUE, thrown |-> "none", detail |-> ""]

\* Bug variant: the robots are tried in the other order.
TestRobots_Reversed == <<"ABB_1", "KUKA_1">>

\* The vector robots of matchRobotToTask.
TestRobots == <<"KUKA_1", "ABB_1">>

\* The loop of matchRobotToTask from robot i on: the value returned and the
\* value left in the reference robotId.
RECURSIVE MatchLoop(_, _, _)
MatchLoop(command, robotId, i) ==
    IF i > Len(TestRobots) THEN [returned |-> FALSE, robotId |-> robotId]
    ELSE LET got == Mock_getRobotCapabilities(TestRobots[i]) IN
         IF got.ok /\ Contains(got.capabilities, command)
         THEN [returned |-> TRUE, robotId |-> TestRobots[i]]
         ELSE MatchLoop(command, robotId, i + 1)

\* The test suite's Orchestrator::matchRobotToTask(command, robotId).
Test_matchRobotToTask(command, robotId) == MatchLoop(command, robotId, 1)

\* The tasks and arguments the calls are tried on: those of the test
\* sections and their neighbours.
TestIds == {"", "TASK_1", "INVALID_TASK", "DB_FAIL"}
TestCommands == {"", "weld_component", "inspect_part", "move_arm", "unsupported_command"}
TestRobotIds == {"", "KUKA_1", "ABB_1", "INVALID_ROBOT", "Ford"}

\* orchestrator.delegateTask(task) in a test section.
CallDelegateTask(task) ==
    /\ test_call' = [function |-> "delegateTask", task |-> task,
                     command |-> task.command, robotId_in |-> task.robotId,
                     robotId |-> task.robotId] @@ Test_delegateTask(task)
    /\ UNCHANGED <<robot_capabilities_, ledger, issued, zmq_state, tasks_topic, calls,
                   thread_vars, status_query, best_query, dispatch_vars,
                   backend_call, zmq_connected>>

\* orchestrator.matchRobotToTask(command, robotId) in a test section.
CallMatchRobotToTask(command, robotId) ==
    /\ test_call' = [function |-> "matchRobotToTask",
                     task |-> NoTestCall.task, command |-> command,
                     robotId_in |-> robotId, thrown |-> "none", detail |-> ""]
                       @@ Test_matchRobotToTask(command, robotId)
    /\ UNCHANGED <<robot_capabilities_, ledger, issued, zmq_state, tasks_topic, calls,
                   thread_vars, status_query, best_query, dispatch_vars,
                   backend_call, zmq_connected>>

InitTest == InitBackend

NextTest ==
    \/ \E id \in TestIds, command \in TestCommands, robotId \in TestRobotIds :
          CallDelegateTask([id |-> id, command |-> command, robotId |-> robotId])
    \/ \E command \in TestCommands, robotId \in TestRobotIds :
          CallMatchRobotToTask(command, robotId)

SpecTest == InitTest /\ [][NextTest]_vars

\* =================================================================== claims
\* What the claims speak of, stated apart from the code's loops.

\* The strength a table gives a robot for a capability; none counts as 0.
StrengthOf(caps, r, c) ==
    IF r \in DOMAIN caps /\ c \in DOMAIN caps[r] THEN caps[r][c] ELSE 0

\* The robots with positive strength for c.
Candidates(caps, c) == {r \in DOMAIN caps : StrengthOf(caps, r, c) > 0}

\* Position of a robot id in lexicographic order.
Rank(r) == CHOOSE i \in 1..Len(RobotIds) : RobotIds[i] = r

\* r has the maximum strength for c, and the smallest id among those that do.
IsBest(caps, c, r) ==
    /\ r \in Candidates(caps, c)
    /\ \A x \in Candidates(caps, c) :
          \/ StrengthOf(caps, x, c) < StrengthOf(caps, r, c)
          \/ /\ StrengthOf(caps, x, c) = StrengthOf(caps, r, c)
             /\ Rank(r) <= Rank(x)

\* Thread t alone moves in this step.
OnlyThread(t) ==
    \A u \in Threads \ {t} :
        /\ pc'[u] = pc[u]
        /\ task_type'[u] = task_type[u]
        /\ robot_id'[u] = robot_id[u]
        /\ row'[u] = row[u]
        /\ result'[u] = result[u]

\* Nothing outside the calling thread is touched: no advisory request, no
\* ledger row, no message, no change of the table.
NoSideEffects ==
    UNCHANGED <<zmq_state, ledger, issued, tasks_topic, robot_capabilities_>>

\* In this step thread t's advisory request fails: the send is refused, the
\* wait times out or the reply is unusable.
AdvisoryFails(t) ==
    /\ pc[t] \in {"send", "recv"}
    /\ pc'[t] \in {"verify", "done"}
    /\ via'[t] # "advisory"

\* C1: delegate(task_type) with an empty task_type fails with ValidationError
\* and has no side effects.  Every step that starts a call either carries a
\* non-empty task type into the call, or ends the call at once with
\* ValidationError while the socket, the ledger, the topic and the table stay
\* as they were.
C1_EmptyTaskTypeRejected ==
    [][calls' = calls + 1 =>
          \E t \in Threads :
              /\ pc[t] \in {"idle", "done"}
              /\ OnlyThread(t)
              /\ \/ pc'[t] = "send" /\ task_type'[t] # ""
                 \/ /\ pc'[t] = "done"
                    /\ result'[t] = ValidationError
                    /\ NoSideEffects]_vars

C1_Witness == \E t \in Threads : pc[t] = "done" /\ result[t] = ValidationError

\* C2: for heavy_lifting and delicate_task (minimum 50), a call whose selected
\* robot is in the table with a strength for the task type below the minimum
\* fails with InsufficientCapability and appends no ledger record, on the
\* advisory path and on the fallback path alike.
C2_BelowMinimumRejected ==
    [][\A t \in Threads :
          (/\ pc[t] = "verify"
           /\ pc'[t] # "verify"
           /\ robot_id[t] \in DOMAIN robot_capabilities_
           /\ task_type[t] \in CheckedCapabilities
           /\ StrengthOf(robot_capabilities_, robot_id[t], task_type[t]) < MinStrength)
          => /\ pc'[t] = "done"
             /\ result'[t] = InsufficientCapability
             /\ UNCHANGED <<ledger, tasks_topic>>]_vars

C2_Witness ==
    \E t \in Threads : pc[t] = "done" /\ result[t] = InsufficientCapability

\* C3: when the advisory request fails and some robot has positive strength
\* for the task type, the call goes on with the best robot of the table; a
\* heavy_lifting call that took the fallback is verified and, when the
\* database accepts the row, appends {heavy_lifting, Ford, assigned}.
C3_FallbackSelectsBest ==
    [][\A t \in Threads :
          /\ (AdvisoryFails(t) /\ Candidates(robot_capabilities_, task_type[t]) # {})
             => /\ pc'[t] = "verify"
                /\ via'[t] = "fallback"
                /\ IsBest(robot_capabilities_, task_type[t], robot_id'[t])
          /\ (/\ via[t] = "fallback"
              /\ task_type[t] = "heavy_lifting"
              /\ pc[t] = "verify"
              /\ pc'[t] # "verify")
             => pc'[t] = "store"
          /\ (/\ via[t] = "fallback"
              /\ task_type[t] = "heavy_lifting"
              /\ pc[t] = "store"
              /\ pc'[t] = "publish")
             => /\ Len(ledger') = Len(ledger) + 1
                /\ ledger'[Len(ledger')].task_type = "heavy_lifting"
                /\ ledger'[Len(ledger')].robot_id = "Ford"
                /\ ledger'[Len(ledger')].status = "assigned"
                /\ \A i \in 1..Len(ledger) : ledger'[i] = ledger[i]]_vars

C3_Witness ==
    \E t \in Threads :
        /\ pc[t] = "publish"
        /\ via[t] = "fallback"
        /\ task_type[t] = "heavy_lifting"
        /\ \E i \in 1..Len(ledger) :
              ledger[i] = [id |-> row[t], task_type |-> "heavy_lifting",
                           robot_id |-> "Ford", status |-> "assigned"]

\* C4: a call whose advisory request fails while no robot of the table has
\* positive strength for the task type fails with NoCapableRobot; no ledger
\* record is created and nothing is published.
C4_NoCapableRobot ==
    [][\A t \in Threads :
          (AdvisoryFails(t) /\ Candidates(robot_capabilities_, task_type[t]) = {})
          => /\ pc'[t] = "done"
             /\ result'[t] = NoCapableRobot
             /\ UNCHANGED <<ledger, tasks_topic>>]_vars

C4_Witness == \E t \in Threads : pc[t] = "done" /\ result[t] = NoCapableRobot

\* C5: a call whose robot id is not a robot of the table fails with
\* UnknownRobot in the step that verifies it (no fallback selection is made),
\* appends no ledger record and publishes nothing.
C5_UnknownRobotRejected ==
    [][\A t \in Threads :
          (/\ pc[t] = "verify"
           /\ pc'[t] # "verify"
           /\ robot_id[t] \notin DOMAIN robot_capabilities_)
          => /\ pc'[t] = "done"
             /\ result'[t] = UnknownRobot
             /\ UNCHANGED <<ledger, tasks_topic, robot_capabilities_>>]_vars

C5_Witness == \E t \in Threads : pc[t] = "done" /\ result[t] = UnknownRobot

\* C6: for every table and capability, bestRobotFor answers the robot with
\* the maximum strength among the robots with strength > 0, the
\* lexicographically smallest id among several such, and fails with NotFound
\* exactly when no robot has positive strength.  The answer is fixed by the
\* table and the capability alone, so every call against an unchanged table
\* gives it again.
C6_BestRobotFor ==
    best_query # NoBest =>
        IF Candidates(robot_capabilities_, best_query.capability) = {}
        THEN best_query.error = NoRobotFound /\ best_query.robot = ""
        ELSE /\ best_query.error = "none"
             /\ IsBest(robot_capabilities_, best_query.capability, best_query.robot)

\* Two robots tie at the maximum and the smaller id is answered.
C6_Witness ==
    /\ best_query # NoBest
    /\ best_query.error = "none"
    /\ \E x \in Candidates(robot_capabilities_, best_query.capability) :
          /\ x # best_query.robot
          /\ StrengthOf(robot_capabilities_, x, best_query.capability)
                = StrengthOf(robot_capabilities_, best_query.robot, best_query.capability)

\* C7: under concurrent delegate calls, in any interleaving, the ids of the
\* ledger are distinct, consecutive and strictly increasing, and the calls
\* that have stored their row hold distinct ids of the ledger.
C7_ConsecutiveIds ==
    /\ \A i \in 1..Len(ledger) : ledger[i].id = i
    /\ \A t \in Threads :
          pc[t] = "publish" => \E i \in 1..Len(ledger) : ledger[i].id = row[t]
    /\ \A t, u \in Threads :
          (t # u /\ pc[t] = "publish" /\ pc[u] = "publish") => row[t] # row[u]

\* Two calls in flight at once have both stored their rows.
C7_Witness ==
    \E t, u \in Threads :
        /\ t # u
        /\ pc[t] = "publish"
        /\ pc[u] = "publish"
        /\ row[u] = row[t] + 1

\* The ledger row with the given id, as a sequence of zero or one rows.
RowsWithId(l, id) == SelectSeq(l, LAMBDA rec : rec.id = id)

\* C8: a successful delegate(task_type) returns to its caller the TaskRecord
\* it appended, carrying the id the ledger issued for that very call.
C8_ReturnsOwnRecord ==
    [][\A t \in Threads :
          (pc[t] = "publish" /\ pc'[t] = "done" /\ result'[t] = "ok")
          => /\ Len(RowsWithId(ledger', row[t])) = 1
             /\ returned'[t] = RowsWithId(ledger', row[t])]_vars

C10_AppendBeforePublish ==
    [][/\ Len(ledger') >= Len(ledger)
       /\ \A i \in 1..Len(ledger) : ledger'[i] = ledger[i]
       /\ tasks_topic' # tasks_topic =>
             \E t \in Threads :
                 /\ pc[t] = "publish"
                 /\ pc'[t] = "done"
                 /\ \E i \in 1..Len(ledger) :
                       /\ ledger[i].id = row[t]
                       /\ tasks_topic' = Append(tasks_topic,
                              [robot_id |-> ledger[i].robot_id,
                               task_type |-> ledger[i].task_type])
       /\ \A t \in Threads :
             (pc[t] = "publish" /\ pc'[t] = "done") =>
                 \E i \in 1..Len(ledger') :
                     ledger'[i] = [id |-> row[t], task_type |-> task_type[t],
                                   robot_id |-> robot_id[t], status |-> "assigned"]]_vars

\* A call has returned after its publish was lost, and its row is kept.
C10_Witness ==
    \E t \in Threads :
        /\ pc[t] = "done"
        /\ result[t] = "ok"
        /\ pub[t] = "lost"
        /\ Len(ledger) > Len(tasks_topic)

\* C11: when the ledger append fails during delegate, the call fails with
\* PersistenceError, nothing is published for it and the write is not
\* retried.  A thread that leaves the store step without a new row in the
\* ledger ends its call in that very step with PersistenceError, and the task
\* topic and the ledger are as they were; a thread reaches the publish step
\* only from a store step that added its row.
C11_AppendFailure ==
    [][\A t \in Threads :
          /\ (pc[t] = "store" /\ pc'[t] # "store" /\ ledger' = ledger) =>
                 /\ pc'[t] = "done"
                 /\ result'[t] = PersistenceError
                 /\ pub'[t] = "none"
                 /\ tasks_topic' = tasks_topic
                 /\ issued' = issued
          /\ (pc[t] # "publish" /\ pc'[t] = "publish") =>
                 /\ pc[t] = "store"
                 /\ Len(ledger') = Len(ledger) + 1
                 /\ ledger'[Len(ledger')].id = row'[t]]_vars

\* A call has ended with PersistenceError; its row is not in the ledger and
\* nothing of it is on the topic.
C11_Witness ==
    \E t \in Threads :
        /\ pc[t] = "done"
        /\ result[t] = PersistenceError
        /\ pub[t] = "none"
        /\ calls = 1
        /\ tasks_topic = <<>>
        /\ DOMAIN issued = 1..Len(ledger)
        /\ \A i \in 1..Len(ledger) : ledger[i] = PriorLedger(Len(ledger))[i]

\* The statuses of a TaskRecord.
Statuses == {"assigned", "executing", "completed", "failed"}

\* A status stays, or moves forward.
Forward(old, new) ==
    \/ new = old
    \/ old = "assigned" /\ new \in {"executing", "completed", "failed"}
    \/ old = "executing" /\ new \in {"completed", "failed"}

\* C12: across any sequence of delegate, getStatus and dispatch operations a
\* ledger record keeps its id, its status only moves forward (a completed or
\* failed record never becomes assigned again), and every status, in the
\* ledger and in what getStatus returns, is one of assigned, executing,
\* completed, failed.
C12_IdAndStatusStable ==
    [][/\ \A i \in 1..Len(ledger) :
             /\ i <= Len(ledger')
             /\ ledger'[i].id = ledger[i].id
             /\ Forward(ledger[i].status, ledger'[i].status)
             /\ ledger[i].status \in Statuses
       /\ \A i \in 1..Len(ledger') : ledger'[i].status \in Statuses
       /\ \A i \in 1..Len(status_query'.rows) :
             status_query'.rows[i].status \in Statuses]_vars

\* A record was delegated and stored, its message was dispatched to the
\* driver, and getStatus then returned the record.
C12_Witness ==
    /\ delivered >= 1
    /\ dispatch.invoked
    /\ status_query.rows # <<>>
    /\ status_query.task_id = MaxPrior + 1
    /\ status_query.rows[1].robot_id = dispatch.robot_id
    /\ calls = MaxCalls

\* The rows of the ledger that carry the robot and task type of a message.
RowsOf(l, r, tt) == {i \in 1..Len(l) : l[i].robot_id = r /\ l[i].task_type = tt}

\* taskCallback has finished the dispatch of the message delegateTask
\* published for record id: the last dispatch carries the record's robot and
\* task type, and no other record does.
DispatchFinished(id) ==
    /\ delivered >= 1
    /\ dispatch.robot_id # ""
    /\ \E i \in 1..Len(ledger) : ledger[i].id = id
    /\ RowsOf(ledger, dispatch.robot_id, dispatch.task_type)
          = {i \in 1..Len(ledger) : ledger[i].id = id}

\* getTaskStatus(id) has returned a record with this status.
StatusReturned(id, status) ==
    /\ status_query.task_id = id
    /\ status_query.rows # <<>>
    /\ status_query.rows[1].status = status

\* C13: polling getStatus(id) confirms a delegated task end to end.  Once the
\* dispatch of record id has finished, a poll of id eventually returns status
\* completed when the driver succeeded, and failed when the dispatch failed.
C13_StatusConfirmsDispatch ==
    \A id \in QueryIds :
        /\ (DispatchFinished(id) /\ dispatch.error = "none")
              ~> StatusReturned(id, "completed")
        /\ (DispatchFinished(id) /\ dispatch.error # "none")
              ~> StatusReturned(id, "failed")

\* C14: dispatch is at-most-once and fire-and-forget.  A delegate call that
\* returns successfully has called publish exactly once, in the step it
\* returns in, putting at most its own message on the topic and leaving the
\* RobotInterface as it was, whatever that is doing; messages enter the
\* topic in no other way.  The subscriber takes the messages in order, each
\* once: a driver is called only in the step that takes the next message off
\* the topic, once, for the robot of that message, and the count of messages
\* taken never goes back nor passes the count of messages published.
C14_AtMostOnce ==
    [][/\ \A t \in Threads :
             (pc[t] # "done" /\ pc'[t] = "done" /\ result'[t] = "ok") =>
                 /\ pc[t] = "publish"
                 /\ pub[t] = "none"
                 /\ pub'[t] \in {"sent", "lost"}
                 /\ tasks_topic' =
                       IF pub'[t] = "sent"
                       THEN Append(tasks_topic, TaskMessage(robot_id[t], task_type[t]))
                       ELSE tasks_topic
                 /\ UNCHANGED dispatch_vars
       /\ tasks_topic' # tasks_topic =>
             \E t \in Threads : pc[t] = "publish" /\ pc'[t] = "done"
       /\ delivered' \in {delivered, delivered + 1}
       /\ delivered' <= Len(tasks_topic')
       /\ driver_calls' # driver_calls =>
             /\ delivered < Len(tasks_topic)
             /\ delivered' = delivered + 1
             /\ \E call \in {[robot_id |-> tasks_topic[delivered + 1].robot_id,
                              function |-> "execute_task",
                              command |-> dispatch'.command]} :
                   driver_calls' = Append(driver_calls, call)
             /\ dispatch'.task_type = tasks_topic[delivered + 1].task_type]_vars

\* Two delegate calls have returned with their messages published; the
\* driver has been called for the first, the second is still on the topic.
C14_Witness ==
    /\ pc[Caller] = "done"
    /\ result[Caller] = "ok"
    /\ pub[Caller] = "sent"
    /\ Len(tasks_topic) = 2
    /\ delivered = 1
    /\ Len(driver_calls) = 1
    /\ driver_calls[1].robot_id = tasks_topic[1].robot_id

\* C15: at startup a load failure of any subset of the configured robots
\* leaves the other robots loaded.  Once the constructor is done, the handles
\* are those of exactly the robots whose file exists and loads, one each,
\* and isRobotAvailable holds for exactly these robots.
C15_PartialStartup ==
    Started =>
        /\ DOMAIN driver_handles_ = {r \in ConfiguredRobots : Loadable(driver_files[r])}
        /\ \A r \in DOMAIN driver_handles_ : driver_handles_[r] = driver_files[r]
        /\ \A r \in ConfiguredRobots \cup {"Ghost"} :
              isRobotAvailable(r) <=> (r \in ConfiguredRobots /\ Loadable(driver_files[r]))

\* The first robot's load failed, the second robot's driver is loaded.
C15_Witness ==
    /\ Started
    /\ ~Loadable(driver_files[robot_driver_map_[1].robot_id])
    /\ isRobotAvailable(robot_driver_map_[2].robot_id)
    /\ ~isRobotAvailable(robot_driver_map_[1].robot_id)

\* This step is a call of taskCallback that reached sendToRobot.
SendsToRobot == delivered' = delivered + 1 /\ dispatch'.robot_id # ""

\* C16: execute for a robot without a loaded driver fails with UnknownRobot,
\* calls no driver and publishes no response.  Every sendToRobot for a robot
\* that has no handle ends with "No driver loaded", and the calls made to
\* drivers and the responses topic are as they were.
C16_UnknownRobot ==
    [][(SendsToRobot /\ dispatch'.robot_id \notin DOMAIN driver_handles_) =>
          /\ dispatch'.error = NoDriverLoaded
          /\ dispatch'.detail = dispatch'.robot_id
          /\ ~dispatch'.invoked
          /\ ~dispatch'.published
          /\ driver_calls' = driver_calls
          /\ responses_topic' = responses_topic]_vars

\* With only Ford loaded, sendToRobot("Scion", "x") has failed with
\* "No driver loaded".
C16_Witness ==
    /\ DOMAIN driver_handles_ = {"Ford"}
    /\ driver_handles_["Ford"] = "execute_task.so"
    /\ dispatch.robot_id = "Scion"
    /\ dispatch.task_type = "x"
    /\ dispatch.error = NoDriverLoaded
    /\ driver_calls = <<>>
    /\ responses_topic = <<>>

\* C17: for a robot with a loaded driver, execute builds the command
\* "<DIALECT>_EXEC(<task_type>)" from the robot's configured dialect when
\* that is KRL, RAPID, KAREL or VAL3, and for any other dialect fails with
\* UnknownDialect without calling the driver.
C17_CommandByDialect ==
    [][(SendsToRobot /\ dispatch'.robot_id \in DOMAIN driver_handles_) =>
          LET lang == robot_language_map_[dispatch'.robot_id] IN
          IF lang \in {"KRL", "RAPID", "KAREL", "VAL3"}
          THEN /\ dispatch'.command = lang \o "_EXEC(" \o dispatch'.task_type \o ")"
               /\ dispatch'.error # UnsupportedLanguage
               /\ dispatch'.invoked =>
                     driver_calls'[Len(driver_calls')].command = dispatch'.command
          ELSE /\ dispatch'.error = UnsupportedLanguage
               /\ dispatch'.detail = lang
               /\ dispatch'.command = ""
               /\ ~dispatch'.invoked
               /\ driver_calls' = driver_calls
               /\ responses_topic' = responses_topic]_vars

\* Scion, configured with RAPID, was sent heavy_lifting as a RAPID command;
\* then Ford, loaded and configured with another language, was refused.
C17_Witness ==
    /\ robot_language_map_["Scion"] = "RAPID"
    /\ robot_language_map_["Ford"] = "LUA"
    /\ Len(driver_calls) = 1
    /\ driver_calls[1].command = "RAPID_EXEC(heavy_lifting)"
    /\ driver_calls[1].robot_id = "Scion"
    /\ dispatch.robot_id = "Ford"
    /\ "Ford" \in DOMAIN driver_handles_
    /\ dispatch.error = UnsupportedLanguage

\* C18: execute for a loaded robot with a supported dialect succeeds end to
\* end against the reference backend.  Every sendToRobot for a robot whose
\* handle is the library of driver.c and whose language is supported calls
\* the backend with the formatted command and ends with a published response
\* of status success whose message contains that command.
C18_ReferenceBackendSucceeds ==
    [][(/\ SendsToRobot
        /\ dispatch'.robot_id \in DOMAIN driver_handles_
        /\ driver_handles_[dispatch'.robot_id] = "driver.c"
        /\ robot_language_map_[dispatch'.robot_id] \in Languages) =>
          /\ dispatch'.error = "none"
          /\ dispatch'.invoked
          /\ driver_calls' # driver_calls
          /\ dispatch'.published
          /\ dispatch'.response.status = "success"
          /\ \E i \in 1..Len(dispatch'.response.message) :
                dispatch'.response.message[i] = dispatch'.command]_vars

\* C19: when the backend reports failure for an execute call, execute fails
\* with BackendExecutionError carrying the backend's message and no success
\* response is published for the call.  Every sendToRobot whose driver call
\* came back with an error response ends with "Driver execution failed" for
\* the robot, holding the response the driver wrote for that very command,
\* and the responses topic is as it was.
C19_BackendFailure ==
    [][(SendsToRobot /\ dispatch'.invoked /\ dispatch'.response.status = "error") =>
          /\ dispatch'.error = DriverExecutionFailed
          /\ dispatch'.detail = dispatch'.robot_id
          /\ dispatch'.response = execute_task(dispatch'.command, FALSE).response
          /\ ~dispatch'.published
          /\ responses_topic' = responses_topic
          /\ Len(driver_calls') = Len(driver_calls) + 1]_vars

\* A driver was called, reported failure, and nothing is on the responses
\* topic.
C19_Witness ==
    /\ dispatch.invoked
    /\ dispatch.response.status = "error"
    /\ dispatch.error = DriverExecutionFailed
    /\ Len(driver_calls) = 1
    /\ responses_topic = <<>>

\* C20: every dispatch outcome is surfaced on the result channel.  The step
\* in which a dispatch ends with an unsupported language, a driver function
\* that cannot be resolved or a driver failure publishes one response with
\* status error on the responses topic, as the step of a successful dispatch
\* publishes one with status success.
C20_OutcomeSurfaced ==
    [][SendsToRobot =>
          /\ dispatch'.error = "none" =>
                /\ Len(responses_topic') = Len(responses_topic) + 1
                /\ responses_topic'[Len(responses_topic')].status = "success"
          /\ dispatch'.error \in {UnsupportedLanguage, FunctionNotFound,
                                  DriverExecutionFailed} =>
                /\ Len(responses_topic') = Len(responses_topic) + 1
                /\ responses_topic'[Len(responses_topic')].status = "error"]_vars

\* C21: the backend returns an error response when robotId, format or
\* command is empty or when format is not one of KRL, RAPID, KAREL, VAL3,
\* and for every other request a response with status success whose message
\* echoes the dialect and the robot id.
C21_BackendValidates ==
    LET req == backend_call.input
        out == backend_call.output IN
    ({"robotId", "format", "command"} \subseteq DOMAIN req) =>
        IF \/ req.robotId = ""
           \/ req.format = ""
           \/ req.command = ""
           \/ req.format \notin {"KRL", "RAPID", "KAREL", "VAL3"}
        THEN out.status = "error"
        ELSE /\ out.status = "success"
             /\ \E i \in 1..Len(out.message) : out.message[i] = req.format
             /\ \E i \in 1..Len(out.message) : out.message[i] = req.robotId

\* The (robot, capability, strength) entries of a table.
Entries(caps) ==
    UNION {{<<r, c, caps[r][c]>> : c \in DOMAIN caps[r]} : r \in DOMAIN caps}

\* C22: the capability table is immutable after startup.  After any sequence
\* of delegate and getStatus calls, with any advisory answers, the entries of
\* the table are those it had at startup.
C22_TableImmutable ==
    /\ DOMAIN robot_capabilities_ = DOMAIN InitialCapabilities
    /\ Entries(robot_capabilities_) = Entries(InitialCapabilities)

\* C23: under concurrent delegate calls the advisory session never has two
\* requests in flight.  A thread's request goes out on the socket only when
\* no other thread has a request out whose reply or timeout it has not yet
\* observed, so that the reply a thread reads answers its own request.
C23_OneRequestInFlight ==
    [][\A t \in Threads :
          (pc[t] = "send" /\ pc'[t] = "recv") =>
              \A u \in Threads \ {t} : pc[u] # "recv"]_vars

\* C24: in the test suite's Orchestrator, delegateTask for a task with
\* non-empty id and command whose robotId is not a robot known to the
\* capability store throws runtime_error "Failed to retrieve robot
\* capabilities".
C24_UnknownRobotInTest ==
    (/\ test_call.function = "delegateTask"
     /\ test_call.task.id # ""
     /\ test_call.task.command # ""
     /\ test_call.task.robotId \notin {"KUKA_1", "ABB_1"}) =>
        /\ test_call.thrown = "Failed to retrieve robot capabilities"
        /\ ~test_call.returned

\* The robots of the fixed order that support a command, by their position.
Supporting(command) ==
    {i \in {1, 2} :
        Contains(Mock_getRobotCapabilities(<<"KUKA_1", "ABB_1">>[i]).capabilities,
                 command)}

\* C25: in the test suite's Orchestrator, matchRobotToTask(command, robotId)
\* returns true and sets robotId to the first robot of [KUKA_1, ABB_1] whose
\* capabilities contain command; when no robot supports the command, the
\* empty command included, it returns false and leaves robotId unchanged.
C25_MatchRobotToTask ==
    test_call.function = "matchRobotToTask" =>
        IF Supporting(test_call.command) = {}
        THEN /\ ~test_call.returned
             /\ test_call.robotId = test_call.robotId_in
        ELSE /\ test_call.returned
             /\ \E i \in Supporting(test_call.command) :
                   /\ \A j \in Supporting(test_call.command) : i <= j
                   /\ test_call.robotId = <<"KUKA_1", "ABB_1">>[i]

\* inspect_part, which both robots support, was matched to KUKA_1 although
\* the caller's robotId named ABB_1.
C25_Witness ==
    /\ test_call.function = "matchRobotToTask"
    /\ test_call.command = "inspect_part"
    /\ test_call.robotId_in = "ABB_1"
    /\ test_call.returned
    /\ test_call.robotId = "KUKA_1"

\* A thread is inside a delegateTask call.
InCall(t) == pc[t] \notin {"idle", "done"}

\* C26: every delegate call eventually returns, with a record or with an
\* error, also when the advisory oracle never answers or cannot be reached.
C26_EveryCallReturns == \A t \in Threads : InCall(t) ~> (pc[t] = "done")

\* Some message handled so far has failed: every message that succeeds
\* publishes one response.
SomeDispatchFailed == delivered > Len(responses_topic)

\* C27: a dispatch message that fails does not stop the layer and does not
\* change the set of loaded backends: every later well-formed request for an
\* available robot (backend loaded, dialect supported) is still executed,
\* that is, the backend is invoked with the command of the robot's dialect.
C27_FailureIsolated ==
    [][(/\ SomeDispatchFailed
        /\ delivered' = delivered + 1
        /\ dispatch'.robot_id # ""
        /\ isRobotAvailable(dispatch'.robot_id)
        /\ SupportedLanguage(robot_language_map_[dispatch'.robot_id]))
       => /\ Started'
          /\ driver_handles_' = driver_handles_
          /\ dispatch'.invoked
          /\ driver_calls' = Append(driver_calls,
                [robot_id |-> dispatch'.robot_id,
                 function |-> "execute_task",
                 command |-> Command(robot_language_map_[dispatch'.robot_id],
                                     dispatch'.task_type)])]_vars

\* C28: after any delegate calls with any advisory answers, every record of
\* the Ledger names a robot of the Capability Table that has strength > 0
\* for the record's task_type.
C28_AssignedRobotIsCapable ==
    \A i \in 1..Len(ledger) :
        /\ ledger[i].robot_id \in DOMAIN robot_capabilities_
        /\ StrengthOf(robot_capabilities_, ledger[i].robot_id, ledger[i].task_type) > 0

====
